---- MODULE Spec2Model ----
(***************************************************************************)
(* Model of ping_sonar_obstacle_avoidance.py: the construction of          *)
(* PingSonarObstacleAvoidance followed by the poll loop of __main__ that   *)
(* calls range_callback forever.                                           *)
(*                                                                         *)
(* Representation of Python values:                                        *)
(*   - None is <<>> and any other value v is <<v>>, so that a local that   *)
(*     is still None can sit in the same row as a number;                  *)
(*   - a dict is a function from its keys; dict.get(k, d) is Get;          *)
(*   - a float is a fixed-point integer with MM_PER_M steps per unit       *)
(*     (1.0 is 1000), which makes multiplying and dividing by MM_TO_M      *)
(*     exact; binary rounding of floats is outside the model;              *)
(*   - a string that the code measures or splits is the sequence of its    *)
(*     pieces (csv_path: its characters, udp_address: its ':' fields).     *)
(* The device SDK (brping.Ping1D) is a black box: what it returns is an    *)
(* input of the action that calls it, and every call that changes the      *)
(* device is appended to calls.                                            *)
(***************************************************************************)
EXTENDS Integers, Sequences, FiniteSets, TLC

VARIABLES pc, args, self, calls, error, csv_file, sink, cycles, cycle

vars == <<pc, args, self, calls, error, csv_file, sink, cycles, cycle>>

\* ------------------------------------------------------------------ values
None == <<>>

Some(v) == <<v>>

IsNone(v) == Len(v) = 0

\* 1 / MM_TO_M: the number of fixed-point steps per unit
MM_PER_M == 1000

\* the float with the value of the integer n
ToFloat(n) == n * MM_PER_M

\* x * MM_TO_M for a float x
TimesMM_TO_M(x) == x \div MM_PER_M

\* x / MM_TO_M for a float x
OverMM_TO_M(x) == x * MM_PER_M

\* int(x) for a float x: truncation toward zero
PyInt(x) == IF x >= 0 THEN x \div MM_PER_M ELSE -((-x) \div MM_PER_M)

\* d.get(key, default)
Get(d, key, default) == IF key \in DOMAIN d THEN d[key] ELSE default

\* truth value of an SDK response: None and the empty dict are false
Truthy(resp) == ~IsNone(resp) /\ DOMAIN resp[1] # {}

\* truth value of a local that holds None or a number
TruthyNum(v) == ~IsNone(v) /\ v[1] # 0

\* ------------------------------------------------------------------ bounds
MaxCycles == 2

\* ------------------------------------------------------ constructor inputs
PollRates == {0, 5000, 20500, 30001}

MinConfidences == {30, 50}

Gains == {-1, 3, 7}

PingPorts == {None, Some("COM3")}

UdpAddresses == {None, Some(<<"192.168.2.2", 9090>>), Some(<<"192.168.2.2">>)}

DeviceTypes == {"Ping1D", "Ping360"}

CsvPaths == {<<>>, <<"T", "1", "3">>}

SpeedsOfSound == {343500}

ModeAutos == {0, 1}

Args ==
  [baudrate : {115200}, ping_port : PingPorts, udp_address : UdpAddresses,
   device_type : DeviceTypes, poll_rate : PollRates,
   min_distance : {1000}, max_distance : {20000},
   speed_of_sound : SpeedsOfSound, min_confidence : MinConfidences,
   gain : Gains, ping_interval : {150}, mode_auto : ModeAutos,
   csv_path : CsvPaths]

\* ------------------------------------------------------------- constructor
\* a clamp that has lost its lower branch
ClampPollRateNoFloor(poll_rate) ==
  IF poll_rate >= 30000 THEN 30000 ELSE poll_rate

\* the clamp of poll_rate
ClampPollRate(poll_rate) ==
  IF poll_rate <= 5000 THEN 5000
  ELSE IF poll_rate >= 30000 THEN 30000
  ELSE poll_rate

\* the attribute assignments at the head of __init__
AssignFields(a) ==
  LET scan_start == OverMM_TO_M(a.min_distance)
  IN [baudrate |-> a.baudrate, ping_port |-> a.ping_port,
      udp_address |-> a.udp_address, device_type |-> a.device_type,
      poll_rate |-> ClampPollRate(a.poll_rate),
      min_distance |-> a.min_distance, max_distance |-> a.max_distance,
      scan_start |-> scan_start,
      scan_range |-> OverMM_TO_M(a.max_distance) - scan_start,
      speed_of_sound |-> a.speed_of_sound,
      speed_of_sound_mms |-> TimesMM_TO_M(a.speed_of_sound),
      min_confidence |-> a.min_confidence, gain |-> a.gain,
      ping_interval |-> a.ping_interval,
      mode_auto |-> (a.mode_auto # 0),
      has_ping |-> FALSE]

\* the state of a construction in progress: the object, the calls made on
\* the device, the exception raised so far, the csv file and its rows
Begin(a) ==
  [self |-> AssignFields(a), calls |-> <<>>, error |-> "none",
   csv_file |-> FALSE, sink |-> <<>>]

Raise(s, exc) == [s EXCEPT !.error = exc]

\* what initialize() can do: return True, return False, or raise
InitializeOutcomes == {"True", "False", "raises"}

\* self.ping = Ping1D(), the transport, and initialize(); a device that has
\* no transport cannot answer, so initialize() does not return True on it
ConnectDevice(s, init) ==
  IF s.error # "none" THEN s
  ELSE IF s.self.device_type # "Ping1D" THEN s
  ELSE
    LET o == [s.self EXCEPT !.has_ping = TRUE]
        connected ==
          IF ~IsNone(o.ping_port)
          THEN [s EXCEPT !.self = o,
                  !.calls = Append(@, <<"connect_serial", o.ping_port[1], o.baudrate>>)]
          ELSE IF ~IsNone(o.udp_address)
          THEN IF Len(o.udp_address[1]) # 2
               THEN Raise([s EXCEPT !.self = o], "ValueError")
               ELSE [s EXCEPT !.self = o,
                       !.calls = Append(@, <<"connect_udp", o.udp_address[1][1],
                                             o.udp_address[1][2]>>)]
          ELSE [s EXCEPT !.self = o]
    IN IF connected.error # "none" THEN connected
       ELSE LET t == [connected EXCEPT !.calls = Append(@, <<"initialize">>)]
            IN IF init = "raises" THEN Raise(t, "initialize raised")
               ELSE IF init = "False" \/ connected.calls = <<>>
               THEN Raise(t, "Could not initialize Ping1D")
               ELSE t

gain_dict == [g \in 0..6 |-> <<6, 18, 55, 129, 302, 661, 1440>>[g + 1]]

\* the validation of the gain index
CheckGain(s) ==
  IF s.error # "none" THEN s
  ELSE IF s.self.gain \notin DOMAIN gain_dict
  THEN Raise(s, "Invalid gain setting")
  ELSE s

set_device_properties(s) ==
  IF s.error # "none" THEN s
  ELSE IF ~s.self.has_ping THEN Raise(s, "AttributeError")
  ELSE [s EXCEPT !.calls = @ \o
          << <<"set_speed_of_sound", PyInt(s.self.speed_of_sound)>>,
             <<"set_range", PyInt(s.self.scan_start), PyInt(s.self.scan_range)>>,
             <<"set_ping_interval", s.self.ping_interval>>,
             <<"set_gain_setting", s.self.gain>>,
             <<"set_mode_auto", IF s.self.mode_auto THEN 1 ELSE 0>> >>]

Header ==
  <<"time", "distance", "confidence", "transmit_duration", "ping_number",
    "max_range", "gain_setting", "profile_data", "speed_of_sound",
    "firmware_version_major", "firmware_version_minor", "ping_interval",
    "mode_auto">>

\* a test that also opens a file for the empty path
OpensCsvAlways(csv_path) == Len(csv_path) >= 0

\* len(csv_path) > 0
OpensCsv(csv_path) == Len(csv_path) > 0

write_to_csv(file, rows, kind, csv_row) ==
  IF file THEN Append(rows, [kind |-> kind, cols |-> csv_row]) ELSE rows

\* the opening of the csv file and the header row
OpenCsv(s, csv_path) ==
  IF s.error # "none" THEN s
  ELSE IF OpensCsv(csv_path)
  THEN [s EXCEPT !.csv_file = TRUE,
                 !.sink = write_to_csv(TRUE, @, "header", Header)]
  ELSE s

\* __init__ with the device configured before the gain index is validated
ConstructWritesFirst(a, init) ==
  OpenCsv(CheckGain(set_device_properties(ConnectDevice(Begin(a), init))),
          a.csv_path)

\* __init__ with the csv file opened before the device is set up
ConstructCsvFirst(a, init) ==
  set_device_properties(CheckGain(ConnectDevice(OpenCsv(Begin(a), a.csv_path),
                                                init)))

\* __init__, from its arguments and the answer of initialize()
Construct(a, init) ==
  OpenCsv(set_device_properties(CheckGain(ConnectDevice(Begin(a), init))),
          a.csv_path)

\* -------------------------------------------------- device responses
EmptyDict == [k \in {} |-> 0]

Confidences == {10, 25, 30, 40, 90}

ProfileOf(c) ==
  [distance |-> 1500, confidence |-> c, transmit_duration |-> 100,
   ping_number |-> 7, scan_start |-> 1000, scan_length |-> 19000,
   gain_setting |-> 2, profile_data |-> <<1, 2>>]

Profiles ==
  {None, Some(EmptyDict), Some([distance |-> 1500])}
    \cup {Some(ProfileOf(c)) : c \in Confidences}

SpeedOfSoundInfos == {None, Some([speed_of_sound |-> 343000])}

GeneralInfos ==
  {None,
   Some([firmware_version_major |-> 3, firmware_version_minor |-> 29,
         ping_interval |-> 150, gain_setting |-> 3, mode_auto |-> 0]),
   Some([firmware_version_major |-> 3])}

\* ---------------------------------------------------------- range_callback
\* the locals of range_callback before the profile is read
Locals ==
  [distance |-> None, confidence |-> None, transmit_duration |-> None,
   ping_number |-> None, scan_start |-> None, scan_length |-> None,
   max_range |-> None, gain_setting |-> None, profile_data |-> None,
   speed_of_sound |-> None, firmware_version_major |-> None,
   firmware_version_minor |-> None, ping_interval |-> None,
   mode_auto |-> None, printed |-> "nothing"]

\* the branch on the profile response
ReadProfile(data) ==
  IF Truthy(data)
  THEN LET d == data[1]
           scan_start == TimesMM_TO_M(ToFloat(Get(d, "scan_start", 0)))
           scan_length == TimesMM_TO_M(ToFloat(Get(d, "scan_length", 0)))
           confidence == Get(d, "confidence", 0)
       IN [Locals EXCEPT
             !.distance = Some(TimesMM_TO_M(ToFloat(Get(d, "distance", 0)))),
             !.confidence = Some(confidence),
             !.transmit_duration = Some(Get(d, "transmit_duration", 0)),
             !.ping_number = Some(Get(d, "ping_number", 0)),
             !.scan_start = Some(scan_start),
             !.scan_length = Some(scan_length),
             !.max_range = Some(scan_start + scan_length),
             !.gain_setting = Some(Get(d, "gain_setting", 0)),
             !.profile_data = Some(Get(d, "profile_data", 0)),
             !.printed = IF confidence >= 30 THEN "Distance" ELSE "nothing"]
  ELSE [Locals EXCEPT !.printed = "Failed to get data"]

\* the speed-of-sound query: the test is on the local, not on the response
ReadSpeedOfSound(L, speed_of_sound_info) ==
  IF TruthyNum(L.speed_of_sound)
  THEN LET d == speed_of_sound_info[1]
       IN [L EXCEPT !.speed_of_sound =
             Some(TimesMM_TO_M(IF "speed_of_sound" \in DOMAIN d
                               THEN ToFloat(d["speed_of_sound"])
                               ELSE 343000))]
  ELSE L

\* a general-info query that keeps the gain setting of the profile
ReadGeneralInfoKeepsGain(L, general_info) ==
  IF Truthy(general_info)
  THEN LET g == general_info[1]
       IN [L EXCEPT
             !.firmware_version_major = Some(Get(g, "firmware_version_major", 0)),
             !.firmware_version_minor = Some(Get(g, "firmware_version_minor", 0)),
             !.ping_interval = Some(Get(g, "ping_interval", 0)),
             !.mode_auto = Some(Get(g, "mode_auto", 0))]
  ELSE L

\* the general-info query
ReadGeneralInfo(L, general_info) ==
  IF Truthy(general_info)
  THEN LET g == general_info[1]
       IN [L EXCEPT
             !.firmware_version_major = Some(Get(g, "firmware_version_major", 0)),
             !.firmware_version_minor = Some(Get(g, "firmware_version_minor", 0)),
             !.ping_interval = Some(Get(g, "ping_interval", 0)),
             !.gain_setting = Some(Get(g, "gain_setting", 0)),
             !.mode_auto = Some(Get(g, "mode_auto", 0))]
  ELSE L

\* the row of a measurement
Row(current_time, L) ==
  <<Some(current_time), L.distance, L.confidence, L.transmit_duration,
    L.ping_number, L.max_range, L.gain_setting, L.profile_data,
    L.speed_of_sound, L.firmware_version_major, L.firmware_version_minor,
    L.ping_interval, L.mode_auto>>

\* confidence >= 30 on the local
Accepts(confidence) == confidence[1] >= 30

\* one call of range_callback on the object o, given the three responses
RangeCallbackResult(o, file, rows, current_time, data, speed_of_sound_info, general_info) ==
  LET L == ReadGeneralInfo(ReadSpeedOfSound(ReadProfile(data), speed_of_sound_info),
                           general_info)
      base == [ran |-> TRUE, data |-> data,
               speed_of_sound_info |-> speed_of_sound_info,
               general_info |-> general_info, printed |-> L.printed,
               speed_of_sound |-> L.speed_of_sound]
  IN IF IsNone(L.confidence)
     THEN [sink |-> rows, cycle |-> base @@ [outcome |-> "TypeError"]]
     ELSE LET written == IF Accepts(L.confidence)
                         THEN write_to_csv(file, rows, "data", Row(current_time, L))
                         ELSE rows
          IN IF o.poll_rate = 0
             THEN [sink |-> written, cycle |-> base @@ [outcome |-> "ZeroDivisionError"]]
             ELSE [sink |-> written,
                   cycle |-> base @@ [outcome |-> "returned",
                                      slept |-> (MM_PER_M * MM_PER_M) \div o.poll_rate]]

\* ----------------------------------------------------------------- actions
NoCycle == [ran |-> FALSE]

Init ==
  /\ pc = "start"
  /\ args \in Args
  /\ self = None
  /\ calls = <<>>
  /\ error = "none"
  /\ csv_file = FALSE
  /\ sink = <<>>
  /\ cycles = 0
  /\ cycle = NoCycle

\* psoa = PingSonarObstacleAvoidance(...): an exception ends the process
New ==
  /\ pc = "start"
  /\ \E init \in InitializeOutcomes :
       LET s == Construct(args, init)
       IN /\ pc' = IF s.error = "none" THEN "loop" ELSE "failed"
          /\ self' = IF s.error = "none" THEN Some(s.self) ELSE None
          /\ calls' = s.calls
          /\ error' = s.error
          /\ csv_file' = s.csv_file
          /\ sink' = s.sink
  /\ UNCHANGED <<args, cycles, cycle>>

\* one iteration of 'while True: psoa.range_callback()' (an exception ends
\* the process); cycles, the number of iterations so far, is the clock
RangeCallback ==
  /\ pc = "loop"
  /\ cycles < MaxCycles
  /\ \E data \in Profiles, speed_of_sound_info \in SpeedOfSoundInfos,
        general_info \in GeneralInfos :
       LET r == RangeCallbackResult(self[1], csv_file, sink, cycles + 1, data,
                                    speed_of_sound_info, general_info)
       IN /\ sink' = r.sink
          /\ cycle' = r.cycle
          /\ pc' = IF r.cycle.outcome = "returned" THEN "loop" ELSE "raised"
  /\ cycles' = cycles + 1
  /\ UNCHANGED <<args, self, calls, error, csv_file>>

Next == New \/ RangeCallback


Spec == Init /\ [][Next]_vars

\* ------------------------------------------------------------------ claims
ConfigOps ==
  {"set_speed_of_sound", "set_range", "set_ping_interval", "set_gain_setting",
   "set_mode_auto"}

ConnectOps == {"connect_serial", "connect_udp"}

IsConfigWrite(c) == c[1] \in ConfigOps

ConfigWrites == SelectSeq(calls, IsConfigWrite)

Constructed == pc \in {"loop", "raised"}

\* the step is one call of range_callback
CycleStep == pc = "loop" /\ cycles' = cycles + 1

LastRow == sink[Len(sink)]

\* the last row of the sink was written by the most recent cycle
WroteRow ==
  /\ cycle.ran
  /\ Len(sink) > 0
  /\ LastRow.kind = "data"
  /\ LastRow.cols[1] = Some(cycles)

\* C1: in every cycle in which get_profile returned data, a row is appended
\* to the open csv sink if and only if the confidence of the sample is at
\* least the configured min_confidence.
C1_RowIffMinConfidence ==
  [][(CycleStep /\ csv_file /\ Truthy(cycle'.data))
       => ((Len(sink') = Len(sink) + 1)
             <=> (Get(cycle'.data[1], "confidence", 0) >= self[1].min_confidence))]_vars

\* C2: a cycle in which get_profile returns no data writes no row, returns
\* after its sleep without raising, and leaves the poll loop running.
C2_NoDataCycleContinues ==
  [][(CycleStep /\ ~Truthy(cycle'.data))
       => (sink' = sink /\ cycle'.outcome = "returned" /\ pc' = "loop")]_vars

\* C3: for a gain index outside 0..6 the construction fails, and it fails
\* before any of the five configuration writes has been issued.
C3_BadGainFailsBeforeWrites ==
  (pc # "start" /\ args.gain \notin 0..6)
    => (pc = "failed" /\ error # "none" /\ ConfigWrites = <<>>)

C3_Witness ==
  /\ pc = "failed"
  /\ args.gain = 7
  /\ error = "Invalid gain setting"
  /\ Len(calls) = 2
  /\ calls[2][1] = "initialize"

\* C4: after construction with a non-empty csv_path the sink starts with the
\* one header row and every later row is a data row; with an empty csv_path
\* no file is open and the sink has no row at all.
C4_HeaderOnceAndFirst ==
  /\ Constructed =>
       IF Len(args.csv_path) > 0
       THEN /\ csv_file
            /\ Len(sink) >= 1
            /\ sink[1] = [kind |-> "header", cols |-> Header]
            /\ \A i \in 2..Len(sink) : sink[i].kind = "data"
       ELSE ~csv_file /\ sink = <<>>
  /\ Len(args.csv_path) = 0 => (~csv_file /\ sink = <<>>)

C4_Witness ==
  /\ pc = "loop"
  /\ Len(args.csv_path) > 0
  /\ Len(sink) = 3
  /\ sink[1].kind = "header"
  /\ sink[3].kind = "data"

\* C5: after construction poll_rate is 5.0 for an input of at most 5.0, 30.0
\* for an input of at least 30.0 and the input itself in between, so it lies
\* in [5, 30] and the sleep of a cycle never divides by zero.
C5_PollRateClamped ==
  Constructed =>
    LET i == args.poll_rate
        e == self[1].poll_rate
    IN /\ i <= 5000 => e = 5000
       /\ i >= 30000 => e = 30000
       /\ (5000 < i /\ i < 30000) => e = i
       /\ 5000 <= e /\ e <= 30000
       /\ cycle.ran => cycle.outcome # "ZeroDivisionError"

C5_Witness ==
  /\ pc = "loop"
  /\ args.poll_rate = 0
  /\ self[1].poll_rate = 5000
  /\ cycle.ran
  /\ cycle.outcome = "returned"
  /\ cycle.slept = 200

\* C6: whenever initialize() is called, exactly one transport (serial or
\* UDP) has been opened before it, whatever ping_port and udp_address are.
C6_OneTransportBeforeInitialize ==
  \A i \in 1..Len(calls) :
    calls[i][1] = "initialize"
      => Cardinality({j \in 1..(i - 1) : calls[j][1] \in ConnectOps}) = 1

\* C7: a successful construction issues exactly the five configuration
\* writes, once each: the speed of sound in integer mm/s, the scan start and
\* the scan length in integer mm, the ping interval, the gain index and the
\* auto mode as 0 or 1.
C7_FiveSettingsPushed ==
  Constructed =>
    ConfigWrites =
      << <<"set_speed_of_sound", PyInt(OverMM_TO_M(args.speed_of_sound))>>,
         <<"set_range", PyInt(OverMM_TO_M(args.min_distance)),
           PyInt(OverMM_TO_M(args.max_distance - args.min_distance))>>,
         <<"set_ping_interval", args.ping_interval>>,
         <<"set_gain_setting", args.gain>>,
         <<"set_mode_auto", IF args.mode_auto # 0 THEN 1 ELSE 0>> >>

\* C8: in a cycle that returns, the speed of sound of the cycle is the
\* reported one times 0.001 when get_speed_of_sound returned data, and it is
\* None only when that query returned no data.
C8_SpeedOfSoundReported ==
  (cycle.ran /\ cycle.outcome = "returned")
    => IF Truthy(cycle.speed_of_sound_info)
       THEN cycle.speed_of_sound =
              Some(TimesMM_TO_M(ToFloat(cycle.speed_of_sound_info[1].speed_of_sound)))
       ELSE IsNone(cycle.speed_of_sound)

\* C9: the gain_setting column of a written data row holds the gain setting
\* of the general-info response when that query returned data, and the one
\* of the profile only when it did not.
C9_GainFromGeneralInfo ==
  WroteRow =>
    LastRow.cols[7] =
      IF Truthy(cycle.general_info)
      THEN Some(Get(cycle.general_info[1], "gain_setting", 0))
      ELSE Some(Get(cycle.data[1], "gain_setting", 0))

C9_Witness ==
  /\ WroteRow
  /\ Truthy(cycle.general_info)
  /\ "gain_setting" \in DOMAIN cycle.general_info[1]
  /\ cycle.data[1].gain_setting = 2
  /\ LastRow.cols[7] = Some(3)

\* C10: when construction fails because initialize() reported failure or the
\* gain index is not in the table, no csv file is open, the sink has no row
\* and no cycle is ever run; when it is initialize() that failed, no
\* configuration write has been issued either.
C10_FailedStartupLeavesNothing ==
  (pc = "failed" /\ error \in {"Could not initialize Ping1D", "Invalid gain setting"})
    => /\ ~csv_file
       /\ sink = <<>>
       /\ cycles = 0
       /\ ~cycle.ran
       /\ error = "Could not initialize Ping1D" => ConfigWrites = <<>>

C10_Witness ==
  /\ pc = "failed"
  /\ error = "Could not initialize Ping1D"
  /\ Len(args.csv_path) > 0
  /\ args.gain \in 0..6
  /\ calls[Len(calls)][1] = "initialize"
====
